---- MODULE Spec2Model ----
(***************************************************************************)
(* Model of SerialPrint.py: the print driver that streams a GCode file to  *)
(* a printer over one serial line, one instruction at a time, with M105    *)
(* temperature polls injected on a timer.                                  *)
(*                                                                         *)
(* Text is modelled as sequences of one-character strings, so that strip,  *)
(* startswith, split and the comment scan are computed as the code does.   *)
(* Line 193 of the source lacks the ':' that ends its `if`; the model      *)
(* reads it as the `if ...: continue` its indentation and comment state.   *)
(***************************************************************************)
EXTENDS Integers, Sequences, FiniteSets, TLC

VARIABLES
    pc,                 \* position of the main script (lines 174-211)
    fileData,           \* text of the GCode file (line 166)
    gcode,              \* fileData.split("\n") (line 178)
    idx,                \* number of elements of gcode the for loop has taken
    instruction,        \* the loop variable (lines 184, 188, 196)
    currentInstruction, \* global shown by WriteScreen (line 25)
    resp,               \* the handshake response (line 175)
    now,                \* the value time() returns
    intervalClock,      \* line 22
    screenClock,        \* line 23
    totalTime,          \* line 21
    extruderTemp,       \* line 16
    extruderTempMax,    \* line 17
    bedTemp,            \* line 18
    bedTempMax,         \* line 19
    printerStatus,      \* line 26
    rx,                 \* lines the device has sent and the driver has not read
    devPos,             \* number of written commands the in-order device has taken
    devPhase,           \* lines the in-order device has sent for its current command
    trace,              \* the driver's writes, and its reads that ended a wait
    drawn               \* what the step just taken printed on the terminal

clocks == <<now, intervalClock, screenClock, totalTime>>
telemetry == <<extruderTemp, extruderTempMax, bedTemp, bedTempMax>>
loopvars == <<gcode, idx, instruction, currentInstruction>>
device == <<devPos, devPhase>>
vars == <<pc, fileData, resp, loopvars, clocks, telemetry, printerStatus, rx, device,
          trace, drawn>>

----------------------------------------------------------------------------
(* Bounds of the model *)

MaxLines == 2      \* raw lines in the file
MaxTime == 2       \* last value of the clock

(* Program constants *)

TempInterval == 1
RefreshInterval == 1

----------------------------------------------------------------------------
(* Text *)

Whitespace == {" ", "\t", "\n", "\r"}
Digits == {"0", "1", "2", "3", "4", "5", "6", "7", "8", "9"}

Last(s) == s[Len(s)]

StartsWith(s, p) == Len(p) <= Len(s) /\ SubSeq(s, 1, Len(p)) = p

\* str.strip(): s without its leading and trailing whitespace
Strip(s) ==
    LET first[k \in 1..(Len(s) + 1)] ==
            IF k <= Len(s) /\ s[k] \in Whitespace THEN first[k + 1] ELSE k
        last[k \in 0..Len(s)] ==
            IF k >= 1 /\ s[k] \in Whitespace THEN last[k - 1] ELSE k
    IN  SubSeq(s, first[1], last[Len(s)])

\* str.split(sep) for a one-character separator: the pieces between the
\* separators, empty ones included
Split(s, sep) ==
    LET nextSep[k \in 1..(Len(s) + 1)] ==
            IF k <= Len(s) /\ s[k] # sep THEN nextSep[k + 1] ELSE k
        pieces[k \in 1..(Len(s) + 1)] ==
            IF nextSep[k] > Len(s)
            THEN <<SubSeq(s, k, Len(s))>>
            ELSE <<SubSeq(s, k, nextSep[k] - 1)>> \o pieces[nextSep[k] + 1]
    IN  pieces[1]

RECURSIVE Join(_, _)
Join(lines, sep) ==
    IF Len(lines) = 0 THEN <<>>
    ELSE IF Len(lines) = 1 THEN lines[1]
    ELSE lines[1] \o <<sep>> \o Join(Tail(lines), sep)

\* "{0}\n".format(text)
WithNewline(text) == Append(text, "\n")

M105 == <<"M", "1", "0", "5">>
M115 == <<"M", "1", "1", "5">>

----------------------------------------------------------------------------
(* Pure functions of the program *)

\* Mutant of StripGCode: the comment markers are taken out, what follows stays
StripGCodeDropsMarkers(text) ==
    LET loop[k \in 1..(Len(text) + 1)] ==
            IF k > Len(text) THEN <<>>
            ELSE IF text[k] = ";" THEN loop[k + 1]
            ELSE <<text[k]>> \o loop[k + 1]
    IN  loop[1]

\* StripGCode: the characters of the instruction up to the first ";". The
\* loop's other test, x == None, is false of every character of a str.
StripGCode(text) ==
    LET loop[k \in 1..(Len(text) + 1)] ==
            IF k > Len(text) THEN <<>>
            ELSE IF text[k] = ";" THEN <<>>
            ELSE <<text[k]>> \o loop[k + 1]
    IN  loop[1]

\* Mutant of Skipped: comment lines are not dropped
SkippedKeepsComments(line) ==
    \/ line = <<>>
    \/ StartsWith(line, M105)

\* Mutant of Skipped: temperature requests of the file are not dropped
SkippedKeepsM105(line) ==
    \/ line = <<>>
    \/ StartsWith(line, <<";">>)

\* The three `continue` tests of the print loop, on the trimmed line
Skipped(line) ==
    \/ line = <<>>
    \/ StartsWith(line, <<";">>)
    \/ StartsWith(line, M105)

\* findall(TempRegex, s): the leftmost, greedy, non-overlapping matches of
\* \d*\.\d* in s. A match starts at k exactly when the digits from k on are
\* followed by "."; it runs over the digits after that ".".
FindAll(s) ==
    LET digitRun[k \in 1..(Len(s) + 1)] ==
            IF k <= Len(s) /\ s[k] \in Digits THEN 1 + digitRun[k + 1] ELSE 0
        from[k \in 1..(Len(s) + 1)] ==
            IF k > Len(s) THEN <<>>
            ELSE LET dot == k + digitRun[k]
                 IN  IF dot <= Len(s) /\ s[dot] = "."
                     THEN LET end == dot + digitRun[dot + 1]
                          IN  <<SubSeq(s, k, end)>> \o from[end + 1]
                     ELSE from[k + 1]
    IN  from[1]

TempPrefix == <<"T", ":">>
OkTempPrefix == <<"o", "k", " ", "T", ":">>
OkPrefix == <<"o", "k">>
\* the busy echo ParseResponse compares with
BusyEcho ==
    <<"e", "c", "h", "o", ":", "b", "u", "s", "y", ":", " ", "p", "r", "o",
    "c", "e", "s", "s", "i", "n", "g">>

\* Mutant of ParseResponse: the line is not trimmed before it is classified
ParseResponseNoStrip(line, temps) ==
    LET regResults == FindAll(line)
        isTemp == StartsWith(line, TempPrefix) \/ StartsWith(line, OkTempPrefix)
    IN  [ temps |-> IF isTemp /\ Len(regResults) >= 4
                    THEN SubSeq(regResults, 1, 4) ELSE temps,
          ready |-> line = OkPrefix,
          localStatus |-> "unassigned" ]

\* Mutant of ParseResponse: a line it does not know is taken as ready
ParseResponseDefaultReady(line, temps) ==
    LET parsed[s \in {Strip(line)}] ==
            LET regResults == FindAll(s)
                isTemp == StartsWith(s, TempPrefix) \/ StartsWith(s, OkTempPrefix)
            IN  [ temps |-> IF isTemp /\ Len(regResults) >= 4
                            THEN SubSeq(regResults, 1, 4) ELSE temps,
                  ready |-> /\ ~StartsWith(s, OkTempPrefix)
                            /\ (StartsWith(s, OkPrefix) \/ s # BusyEcho),
                  localStatus |->
                      IF StartsWith(s, OkTempPrefix) THEN "unassigned"
                      ELSE IF StartsWith(s, OkPrefix) THEN "Printing"
                      ELSE IF s = BusyEcho THEN "Heating"
                      ELSE "unassigned" ]
    IN  parsed[Strip(line)]

\* Mutant of ParseResponse: four numbers are taken from any line
ParseResponseAnyPrefix(line, temps) ==
    LET parsed[s \in {Strip(line)}] ==
            LET regResults == FindAll(s)
            IN  [ temps |-> IF Len(regResults) >= 4
                            THEN SubSeq(regResults, 1, 4) ELSE temps,
                  ready |-> ~StartsWith(s, OkTempPrefix) /\ StartsWith(s, OkPrefix),
                  localStatus |->
                      IF StartsWith(s, OkTempPrefix) THEN "unassigned"
                      ELSE IF StartsWith(s, OkPrefix) THEN "Printing"
                      ELSE IF s = BusyEcho THEN "Heating"
                      ELSE "unassigned" ]
    IN  parsed[Strip(line)]

\* Mutant of ParseResponse: the acknowledgment is looked for before the
\* temperature report
ParseResponseOkFirst(line, temps) ==
    LET parsed[s \in {Strip(line)}] ==
            LET regResults == FindAll(s)
                isTemp == StartsWith(s, TempPrefix) \/ StartsWith(s, OkTempPrefix)
            IN  [ temps |-> IF isTemp /\ Len(regResults) >= 4
                            THEN SubSeq(regResults, 1, 4) ELSE temps,
                  ready |-> StartsWith(s, OkPrefix),
                  localStatus |->
                      IF StartsWith(s, OkPrefix) THEN "Printing"
                      ELSE IF s = BusyEcho THEN "Heating"
                      ELSE "unassigned" ]
    IN  parsed[Strip(line)]

\* ParseResponse: the result, the telemetry it leaves in the four globals and
\* the value it assigns to its own (function-local) printerStatus. The function
\* has no `global printerStatus`, so that assignment does not reach the global.
\* (parsed is a function of the trimmed line s, resp after line 115, so that
\* the trimming is evaluated once.)
ParseResponse(line, temps) ==
    LET parsed[s \in {Strip(line)}] ==
            LET regResults == FindAll(s)
                isTemp == StartsWith(s, TempPrefix) \/ StartsWith(s, OkTempPrefix)
            IN  [ temps |-> IF isTemp /\ Len(regResults) >= 4
                            THEN SubSeq(regResults, 1, 4) ELSE temps,
                  ready |-> ~StartsWith(s, OkTempPrefix) /\ StartsWith(s, OkPrefix),
                  localStatus |->
                      IF StartsWith(s, OkTempPrefix) THEN "unassigned"
                      ELSE IF StartsWith(s, OkPrefix) THEN "Printing"
                      ELSE IF s = BusyEcho THEN "Heating"
                      ELSE "unassigned" ]
    IN  parsed[Strip(line)]

DigitChars == <<"0", "1", "2", "3", "4", "5", "6", "7", "8", "9">>

\* "{0}".format(n) for an int n >= 0: its decimal digits
Str(n) ==
    LET digits[k \in 0..n] ==
            IF k < 10 THEN <<DigitChars[k + 1]>>
            ELSE Append(digits[k \div 10], DigitChars[(k % 10) + 1])
    IN  digits[n]

HourLabel == <<" ", "H", "o", "u", "r">>
MinuteLabel == <<" ", "M", "i", "n", "u", "t", "e">>
SecondLabel == <<" ", "S", "e", "c", "o", "n", "d">>

\* Mutant of FormatSeconds: the label of a unit is plural only above one
FormatSecondsZeroSingular(seconds) ==
    LET hours == seconds \div 3600
        minutes == (seconds % 3600) \div 60
        secs == (seconds % 3600) % 60
    IN  (IF hours # 0
         THEN Str(hours) \o HourLabel
              \o (IF hours > 1 THEN <<"s", ",", " ">> ELSE <<",", " ">>)
         ELSE <<>>)
        \o (IF minutes # 0
            THEN Str(minutes) \o MinuteLabel
                 \o (IF minutes > 1 THEN <<"s", ",", " ">> ELSE <<",", " ">>)
            ELSE <<>>)
        \o Str(secs) \o SecondLabel
        \o (IF secs > 1 THEN <<"s">> ELSE <<>>)

\* FormatSeconds, for a whole number of seconds: int(seconds / 3600), then
\* seconds %= 3600, int(seconds / 60), seconds %= 60, and the three formats
FormatSeconds(seconds) ==
    LET hours == seconds \div 3600
        minutes == (seconds % 3600) \div 60
        secs == (seconds % 3600) % 60
    IN  (IF hours # 0
         THEN Str(hours) \o HourLabel
              \o (IF hours > 1 \/ hours = 0 THEN <<"s", ",", " ">> ELSE <<",", " ">>)
         ELSE <<>>)
        \o (IF minutes # 0
            THEN Str(minutes) \o MinuteLabel
                 \o (IF minutes > 1 \/ minutes = 0 THEN <<"s", ",", " ">> ELSE <<",", " ">>)
            ELSE <<>>)
        \o Str(secs) \o SecondLabel
        \o (IF secs > 1 \/ secs = 0 THEN <<"s">> ELSE <<>>)

----------------------------------------------------------------------------
(* Inputs: files and device lines *)

\* an empty raw line, as a trailing newline or a blank line leaves
LineBlank ==
    <<>>
\* a comment line
LineComment ==
    <<";", "c">>
\* a temperature request in the file
LinePoll ==
    <<"M", "1", "0", "5", " ">>
\* a plain instruction
LineHome ==
    <<"G", "2", "8">>
\* an instruction with surrounding blanks and an inline comment
LineMove ==
    <<" ", "G", "1", " ", "X", "1", "0", ";", "c", " ">>

RawLines == {LineBlank, LineComment, LinePoll, LineHome, LineMove}

RECURSIVE SeqsUpTo(_, _)
SeqsUpTo(S, n) ==
    IF n = 0 THEN {<<>>}
    ELSE LET shorter == SeqsUpTo(S, n - 1)
         IN  shorter \cup {Append(q, x) : q \in shorter, x \in S}

\* Texts of one to MaxLines raw lines, "\n" between them
Files == {Join(lines, "\n") : lines \in SeqsUpTo(RawLines, MaxLines) \ {<<>>}}

\* bare acknowledgment
OkLine ==
    <<"o", "k", "\n">>
\* temperature report, as sent in answer to M105
OkTempLine ==
    <<"o", "k", " ", "T", ":", "1", ".", "5", " ", "/", "2", ".", "0", " ",
    "B", ":", "3", ".", "0", " ", "/", "4", ".", "0", "\n">>
\* busy echo
BusyLine ==
    <<"e", "c", "h", "o", ":", "b", "u", "s", "y", ":", " ", "p", "r", "o",
    "c", "e", "s", "s", "i", "n", "g", "\n">>
\* identification line, unrecognized by ParseResponse
IdentLine ==
    <<"F", "I", "R", "M", "W", "A", "R", "E", "_", "N", "A", "M", "E", ":",
    "M", "a", "r", "l", "i", "n", "\n">>

ReadyLines == {OkLine}
NoiseLines == {OkTempLine, BusyLine, IdentLine}

----------------------------------------------------------------------------
(* State *)

\* A line in flight from the device; re is the number (in order of writing) of
\* the command the in-order device answers with it, 0 for any other line.
Msg(line, re) == [line |-> line, re |-> re]

\* Channel events of the driver: every write (kind "handshake", "poll" or
\* "instr") and every read that lets the script go on: the one read of the
\* handshake (kind "handshake") and each read ParseResponse found ready (kind
\* "wait"). Reads that leave the driver in its wait loop are not recorded.
WriteEvent(kind, text) ==
    [op |-> "w", kind |-> kind, text |-> text, ready |-> FALSE, re |-> 0]
ReadEvent(kind, ready, re) ==
    [op |-> "r", kind |-> kind, text |-> <<>>, ready |-> ready, re |-> re]

IsWrite(e) == e.op = "w"
IsInstr(e) == e.op = "w" /\ e.kind = "instr"
IsPoll(e) == e.op = "w" /\ e.kind = "poll"

\* What the driver has written to the serial port, in order
written == SelectSeq(trace, IsWrite)

\* What a step prints on the terminal. Of a frame of WriteScreen the model
\* keeps the four lines of content (status, the two temperature lines, the
\* elapsed time, the instruction); the bars and the padding depend on the size
\* of the terminal only. NoFrame is the output of a step that prints nothing
\* of these.
Frame(kind, status, extruder, bed, elapsed, inst) ==
    [kind |-> kind, status |-> status, extruder |-> extruder, bed |-> bed,
     elapsed |-> elapsed, inst |-> inst]

NoFrame == Frame("none", "", <<>>, <<>>, <<>>, <<>>)

\* WriteScreen(): the frame it prints from the globals and time()
WriteScreen ==
    Frame("status", printerStatus, <<extruderTemp, extruderTempMax>>,
          <<bedTemp, bedTempMax>>, FormatSeconds(now - totalTime),
          currentInstruction)

\* print("Print finished in {0}".format(FormatSeconds(time() - totalTime)))
FinishedFrame ==
    Frame("finished", "", <<>>, <<>>, FormatSeconds(now - totalTime), <<>>)

Init ==
    /\ pc = "handshake_write"
    /\ fileData \in Files
    /\ gcode = <<>>
    /\ idx = 0
    /\ instruction = <<>>
    /\ currentInstruction = <<>>
    /\ resp = <<>>
    /\ now = 0
    /\ intervalClock = 0
    /\ screenClock = 0
    /\ totalTime = 0
    /\ extruderTemp = <<"0">>
    /\ extruderTempMax = <<"0">>
    /\ bedTemp = <<"0">>
    /\ bedTempMax = <<"0">>
    /\ printerStatus = "default"
    /\ rx = <<>>
    /\ devPos = 0
    /\ devPhase = 0
    /\ trace = <<>>
    /\ drawn = NoFrame

----------------------------------------------------------------------------
(* The driver: lines 174-211 *)

\* Mutant of HandshakeWrite: the response to M115 is not read
HandshakeWriteNoRead ==
    /\ pc = "handshake_write"
    /\ trace' = Append(trace, WriteEvent("handshake", WithNewline(M115)))
    /\ pc' = "split"
    /\ UNCHANGED <<fileData, resp, loopvars, clocks, telemetry, printerStatus, rx, device>>
    /\ drawn' = NoFrame

\* serialPort.write(b"M115\n")
HandshakeWrite ==
    /\ pc = "handshake_write"
    /\ trace' = Append(trace, WriteEvent("handshake", WithNewline(M115)))
    /\ pc' = "handshake_read"
    /\ UNCHANGED <<fileData, resp, loopvars, clocks, telemetry, printerStatus, rx, device>>
    /\ drawn' = NoFrame

\* Mutant of HandshakeRead: the script reads until the line is an acknowledgment
HandshakeReadWaitsOk ==
    /\ pc = "handshake_read"
    /\ rx # <<>>
    /\ resp' = Head(rx).line
    /\ rx' = Tail(rx)
    /\ trace' = Append(trace, ReadEvent("handshake", FALSE, Head(rx).re))
    /\ pc' = IF ParseResponse(Head(rx).line, telemetry).ready
             THEN "split" ELSE "handshake_read"
    /\ UNCHANGED <<fileData, loopvars, clocks, telemetry, printerStatus, device>>
    /\ drawn' = NoFrame

\* resp = serialPort.readline().decode(); print(...). Blocks while no line is there.
HandshakeRead ==
    /\ pc = "handshake_read"
    /\ rx # <<>>
    /\ resp' = Head(rx).line
    /\ rx' = Tail(rx)
    /\ trace' = Append(trace, ReadEvent("handshake", FALSE, Head(rx).re))
    /\ pc' = "split"
    /\ UNCHANGED <<fileData, loopvars, clocks, telemetry, printerStatus, device>>
    /\ drawn' = NoFrame

\* gcode = fileData.split("\n")
SplitFile ==
    /\ pc = "split"
    /\ gcode' = Split(fileData, "\n")
    /\ pc' = "clk_interval"
    /\ UNCHANGED <<fileData, resp, idx, instruction, currentInstruction, clocks,
                   telemetry, printerStatus, rx, device, trace>>
    /\ drawn' = NoFrame

\* intervalClock = time()
SetIntervalClock ==
    /\ pc = "clk_interval"
    /\ intervalClock' = now
    /\ pc' = "clk_screen"
    /\ UNCHANGED <<fileData, resp, loopvars, now, screenClock, totalTime,
                   telemetry, printerStatus, rx, device, trace>>
    /\ drawn' = NoFrame

\* screenClock = time()
SetScreenClock ==
    /\ pc = "clk_screen"
    /\ screenClock' = now
    /\ pc' = "clk_total"
    /\ UNCHANGED <<fileData, resp, loopvars, now, intervalClock, totalTime,
                   telemetry, printerStatus, rx, device, trace>>
    /\ drawn' = NoFrame

\* totalTime = time()
SetTotalTime ==
    /\ pc = "clk_total"
    /\ totalTime' = now
    /\ pc' = "for"
    /\ UNCHANGED <<fileData, resp, loopvars, now, intervalClock, screenClock,
                   telemetry, printerStatus, rx, device, trace>>
    /\ drawn' = NoFrame

\* for instruction in gcode: the next element, or the end of the loop
ForNext ==
    /\ pc = "for"
    /\ IF idx < Len(gcode)
       THEN /\ instruction' = gcode[idx + 1]
            /\ idx' = idx + 1
            /\ pc' = "poll_check"
       ELSE /\ pc' = "finish"
            /\ UNCHANGED <<instruction, idx>>
    /\ UNCHANGED <<fileData, resp, gcode, currentInstruction, clocks, telemetry,
                   printerStatus, rx, device, trace>>
    /\ drawn' = NoFrame

\* Mutant of PollCheck: the comparison is not strict
PollCheckNotStrict ==
    /\ pc = "poll_check"
    /\ pc' = IF now - intervalClock >= TempInterval THEN "poll_reset" ELSE "filter"
    /\ UNCHANGED <<fileData, resp, loopvars, clocks, telemetry, printerStatus,
                   rx, device, trace>>
    /\ drawn' = NoFrame

\* Mutant of PollCheck: the poll comes one interval late
PollCheckLate ==
    /\ pc = "poll_check"
    /\ pc' = IF now - intervalClock > 2 * TempInterval THEN "poll_reset" ELSE "filter"
    /\ UNCHANGED <<fileData, resp, loopvars, clocks, telemetry, printerStatus,
                   rx, device, trace>>
    /\ drawn' = NoFrame

\* if time() - intervalClock > TempInterval:
PollCheck ==
    /\ pc = "poll_check"
    /\ pc' = IF now - intervalClock > TempInterval THEN "poll_reset" ELSE "filter"
    /\ UNCHANGED <<fileData, resp, loopvars, clocks, telemetry, printerStatus,
                   rx, device, trace>>
    /\ drawn' = NoFrame

\* intervalClock = time()
PollReset ==
    /\ pc = "poll_reset"
    /\ intervalClock' = now
    /\ pc' = "poll_write"
    /\ UNCHANGED <<fileData, resp, loopvars, now, screenClock, totalTime,
                   telemetry, printerStatus, rx, device, trace>>
    /\ drawn' = NoFrame

\* serialPort.write(b"M105\n")
PollWrite ==
    /\ pc = "poll_write"
    /\ trace' = Append(trace, WriteEvent("poll", WithNewline(M105)))
    /\ pc' = "filter"
    /\ UNCHANGED <<fileData, resp, loopvars, clocks, telemetry, printerStatus,
                   rx, device>>
    /\ drawn' = NoFrame

\* instruction = instruction.strip() and the three `continue` tests
Filter ==
    /\ pc = "filter"
    /\ instruction' = Strip(instruction)
    /\ pc' = IF Skipped(Strip(instruction)) THEN "for" ELSE "send"
    /\ UNCHANGED <<fileData, resp, gcode, idx, currentInstruction, clocks,
                   telemetry, printerStatus, rx, device, trace>>
    /\ drawn' = NoFrame

\* Mutant of Send: the instruction is written before it is noted as current,
\* and never noted
SendStaleInstruction ==
    /\ pc = "send"
    /\ instruction' = StripGCode(instruction)
    /\ trace' = Append(trace, WriteEvent("instr", WithNewline(StripGCode(instruction))))
    /\ pc' = "redraw"
    /\ UNCHANGED <<fileData, resp, gcode, idx, currentInstruction, clocks,
                   telemetry, printerStatus, rx, device>>
    /\ drawn' = NoFrame

\* instruction = StripGCode(instruction); currentInstruction = instruction;
\* serialPort.write("{0}\n".format(instruction).encode())
Send ==
    /\ pc = "send"
    /\ instruction' = StripGCode(instruction)
    /\ currentInstruction' = StripGCode(instruction)
    /\ trace' = Append(trace, WriteEvent("instr", WithNewline(StripGCode(instruction))))
    /\ pc' = "redraw"
    /\ UNCHANGED <<fileData, resp, gcode, idx, clocks, telemetry, printerStatus,
                   rx, device>>
    /\ drawn' = NoFrame

\* Mutant of Redraw: the redraw after the send restarts the refresh clock
RedrawResetsClock ==
    /\ pc = "redraw"
    /\ pc' = "wait_check"
    /\ screenClock' = now
    /\ UNCHANGED <<fileData, resp, loopvars, now, intervalClock, totalTime,
                   telemetry, printerStatus, rx, device, trace>>
    /\ drawn' = WriteScreen

\* WriteScreen() right after the send
Redraw ==
    /\ pc = "redraw"
    /\ pc' = "wait_check"
    /\ UNCHANGED <<fileData, resp, loopvars, clocks, telemetry, printerStatus,
                   rx, device, trace>>
    /\ drawn' = WriteScreen

\* Mutant of WaitCheck: the wait loop polls the temperature too
WaitCheckPolls ==
    /\ pc = "wait_check"
    /\ pc' = IF now - screenClock >= RefreshInterval THEN "wait_reset" ELSE "read"
    /\ trace' = IF now - intervalClock > TempInterval
                THEN Append(trace, WriteEvent("poll", WithNewline(M105)))
                ELSE trace
    /\ UNCHANGED <<fileData, resp, loopvars, clocks, telemetry, printerStatus,
                   rx, device>>
    /\ drawn' = NoFrame

\* if time() - screenClock >= RefreshInterval:
WaitCheck ==
    /\ pc = "wait_check"
    /\ pc' = IF now - screenClock >= RefreshInterval THEN "wait_reset" ELSE "read"
    /\ UNCHANGED <<fileData, resp, loopvars, clocks, telemetry, printerStatus,
                   rx, device, trace>>
    /\ drawn' = NoFrame

\* screenClock = time()
WaitReset ==
    /\ pc = "wait_reset"
    /\ screenClock' = now
    /\ pc' = "wait_draw"
    /\ UNCHANGED <<fileData, resp, loopvars, now, intervalClock, totalTime,
                   telemetry, printerStatus, rx, device, trace>>
    /\ drawn' = NoFrame

\* WriteScreen() of the timed refresh
WaitDraw ==
    /\ pc = "wait_draw"
    /\ pc' = "read"
    /\ UNCHANGED <<fileData, resp, loopvars, clocks, telemetry, printerStatus,
                   rx, device, trace>>
    /\ drawn' = WriteScreen

\* Mutant of Read: the wait ends on whatever line is read
ReadAnyLineEndsWait ==
    /\ pc = "read"
    /\ rx # <<>>
    /\ \E r \in {ParseResponse(Head(rx).line, telemetry)} :
           /\ extruderTemp' = r.temps[1]
           /\ extruderTempMax' = r.temps[2]
           /\ bedTemp' = r.temps[3]
           /\ bedTempMax' = r.temps[4]
           /\ trace' = IF r.ready
                       THEN Append(trace, ReadEvent("wait", TRUE, Head(rx).re))
                       ELSE trace
           /\ pc' = "for"
    /\ rx' = Tail(rx)
    /\ UNCHANGED <<fileData, resp, loopvars, clocks, printerStatus, device>>
    /\ drawn' = NoFrame

\* if ParseResponse(serialPort.readline().decode()): break
\* Blocks while no line is there.
Read ==
    /\ pc = "read"
    /\ rx # <<>>
    /\ \E r \in {ParseResponse(Head(rx).line, telemetry)} :
           /\ extruderTemp' = r.temps[1]
           /\ extruderTempMax' = r.temps[2]
           /\ bedTemp' = r.temps[3]
           /\ bedTempMax' = r.temps[4]
           /\ trace' = IF r.ready
                       THEN Append(trace, ReadEvent("wait", TRUE, Head(rx).re))
                       ELSE trace
           /\ pc' = IF r.ready THEN "for" ELSE "sleep"
    /\ rx' = Tail(rx)
    /\ UNCHANGED <<fileData, resp, loopvars, clocks, printerStatus, device>>
    /\ drawn' = NoFrame

\* Mutant of Sleep: the wait is given up once the poll interval has passed
SleepGivesUp ==
    /\ pc = "sleep"
    /\ pc' = IF now - intervalClock > TempInterval THEN "for" ELSE "wait_check"
    /\ UNCHANGED <<fileData, resp, loopvars, clocks, telemetry, printerStatus,
                   rx, device, trace>>
    /\ drawn' = NoFrame

\* sleep(0.001)
Sleep ==
    /\ pc = "sleep"
    /\ pc' = "wait_check"
    /\ UNCHANGED <<fileData, resp, loopvars, clocks, telemetry, printerStatus,
                   rx, device, trace>>
    /\ drawn' = NoFrame

\* ClearScreen(); print("Print finished in ...")
Finish ==
    /\ pc = "finish"
    /\ pc' = "done"
    /\ UNCHANGED <<fileData, resp, loopvars, clocks, telemetry, printerStatus,
                   rx, device, trace>>
    /\ drawn' = FinishedFrame

Driver ==
    \/ HandshakeWrite \/ HandshakeRead \/ SplitFile
    \/ SetIntervalClock \/ SetScreenClock \/ SetTotalTime
    \/ ForNext \/ PollCheck \/ PollReset \/ PollWrite \/ Filter \/ Send \/ Redraw
    \/ WaitCheck \/ WaitReset \/ WaitDraw \/ Read \/ Sleep \/ Finish

----------------------------------------------------------------------------
(* The environment: the clock and the device *)

\* Positions whose next step calls time(); the clock is observed nowhere else,
\* so time that passes elsewhere is seen as having passed at the next of these.
\* The first call (line 180) is the origin of the clock: now = 0 there.
TimeReadPCs ==
    {"clk_screen", "clk_total", "poll_check", "poll_reset", "redraw",
     "wait_check", "wait_reset", "wait_draw", "finish"}

\* time() never goes back
Tick ==
    /\ pc \in TimeReadPCs
    /\ now < MaxTime
    /\ now' = now + 1
    /\ UNCHANGED <<pc, fileData, resp, loopvars, intervalClock, screenClock,
                   totalTime, telemetry, printerStatus, rx, device, trace>>
    /\ drawn' = NoFrame

\* readline() is the only way the driver sees the device, so an arbitrary
\* device is one that hands the blocked readline() any line.
ReadBlocked == pc \in {"handshake_read", "read"} /\ rx = <<>>

\* The device sends a line that ParseResponse takes as ready
DeviceReady ==
    /\ ReadBlocked
    /\ \E line \in ReadyLines : rx' = <<Msg(line, 0)>>
    /\ UNCHANGED <<pc, fileData, resp, loopvars, clocks, telemetry, printerStatus,
                   device, trace>>
    /\ drawn' = NoFrame

\* The device sends a line that ParseResponse takes as not ready
DeviceNoise ==
    /\ ReadBlocked
    /\ \E line \in NoiseLines : rx' = <<Msg(line, 0)>>
    /\ UNCHANGED <<pc, fileData, resp, loopvars, clocks, telemetry, printerStatus,
                   device, trace>>
    /\ drawn' = NoFrame

\* A device that answers every command it receives, in order: M115 with an
\* identification line, unrecognized by ParseResponse and then a bare ok, M105 with an "ok T:" line, anything
\* else with a bare ok.
DeviceAnswer ==
    /\ devPos < Len(written)
    /\ LET cmd == written[devPos + 1].text
       IN  IF cmd = WithNewline(M115) /\ devPhase = 0
           THEN /\ rx' = Append(rx, Msg(IdentLine, devPos + 1))
                /\ devPhase' = 1
                /\ devPos' = devPos
           ELSE /\ rx' = Append(rx, Msg(IF cmd = WithNewline(M105)
                                        THEN OkTempLine ELSE OkLine, devPos + 1))
                /\ devPhase' = 0
                /\ devPos' = devPos + 1
    /\ UNCHANGED <<pc, fileData, resp, loopvars, clocks, telemetry, printerStatus,
                   trace>>
    /\ drawn' = NoFrame

Next == Driver \/ Tick \/ DeviceReady \/ DeviceNoise

Spec == Init /\ [][Next]_vars

NextOrdered == Driver \/ Tick \/ DeviceAnswer

SpecOrdered == Init /\ [][NextOrdered]_vars

----------------------------------------------------------------------------
(* Vocabulary of the claims *)

\* The driver is in the acknowledgment wait of the instruction it wrote last
WaitPCs == {"redraw", "wait_check", "wait_reset", "wait_draw", "read", "sleep"}
InWait == pc \in WaitPCs

Texts(events) == [i \in 1..Len(events) |-> events[i].text]

\* The instructions written so far, in order
InstrWritten == Texts(SelectSeq(trace, IsInstr))
HasPoll == \E i \in 1..Len(trace) : IsPoll(trace[i])

\* Position of the first ';' of a text, one past its end if it has none
FirstSemicolon(text) ==
    LET at == {i \in 1..Len(text) : text[i] = ";"}
    IN  IF at = {} THEN Len(text) + 1 ELSE CHOOSE i \in at : \A j \in at : i <= j

TruncatedAtSemicolon(text) == SubSeq(text, 1, FirstSemicolon(text) - 1)

\* A trimmed raw line that is a real instruction
IsReal(text) ==
    /\ Len(text) > 0
    /\ text[1] # ";"
    /\ ~(Len(text) >= 4 /\ text[1] = "M" /\ text[2] = "1" /\ text[3] = "0" /\ text[4] = "5")

RealLine(line) == IsReal(Strip(line))

\* The filtered program of a sequence of raw lines, as it goes on the wire
FilteredProgram(lines) ==
    LET real == SelectSeq(lines, RealLine)
    IN  [i \in 1..Len(real) |-> Append(TruncatedAtSemicolon(Strip(real[i])), "\n")]

\* Raw lines whose turn is over: all taken ones, but the one being worked on
\* before its send
LinesDone == IF pc \in {"poll_check", "poll_reset", "poll_write", "filter", "send"}
             THEN idx - 1 ELSE idx

\* Events that open or close an acknowledgment wait
IsAckEvent(e) == IsInstr(e) \/ (e.op = "r" /\ e.kind = "wait")
AckEvents == SelectSeq(trace, IsAckEvent)

----------------------------------------------------------------------------
(* C1: the lines written other than the M115 handshake and the M105 polls are
   exactly the real instructions of the raw lines whose turn is over, in file
   order, each once, trimmed and truncated at its first ';' -- and so, once
   the driver has finished, exactly the filtered program of the file. *)
C1_FilteredProgramWritten ==
    /\ InstrWritten = FilteredProgram(SubSeq(gcode, 1, LinesDone))
    /\ pc = "done" => InstrWritten = FilteredProgram(Split(fileData, "\n"))

\* A finished run of a file with a dropped line and an instruction that had
\* blanks and an inline comment stripped
C1_Witness ==
    /\ pc = "done"
    /\ gcode = <<LinePoll, LineMove>>
    /\ InstrWritten = <<<<"G", "1", " ", "X", "1", "0", "\n">>>>

(* C2: at most one instruction is in flight: the instruction writes and the
   ready reads of the wait loop alternate, starting with a write, and the
   driver is in the acknowledgment wait exactly while the last of them is a
   write, so the wait ends on the first ready line and on nothing else. *)
C2_OneInFlight ==
    /\ \A i \in 1..Len(AckEvents) :
           IF i % 2 = 1 THEN IsInstr(AckEvents[i])
           ELSE AckEvents[i].op = "r" /\ AckEvents[i].ready
    /\ InWait <=> (Len(AckEvents) % 2 = 1)

\* The second instruction is in flight after the first was acknowledged, and
\* a not-ready line has been read in its wait
C2_Witness ==
    /\ pc = "sleep"
    /\ Len(InstrWritten) = 2
    /\ Len(AckEvents) = 3

(* C3: with the device that answers every command in order, the ready line
   that ends the wait for an instruction is the device's answer to that
   instruction, the command written last before the read, and never a line it
   sent for the handshake or for an earlier command. *)
C3_AckOfThisInstruction ==
    \A j \in 1..Len(trace) :
        (trace[j].op = "r" /\ trace[j].kind = "wait")
            => trace[j].re = Len(SelectSeq(SubSeq(trace, 1, j), IsWrite))

(* C4 as claimed: the driver never writes a command while the response to the
   command written before it has not been read, so no two writes follow each
   other with no read between them. *)
C4_Original ==
    \A i \in 1..(Len(trace) - 1) : ~(IsWrite(trace[i]) /\ IsWrite(trace[i + 1]))

(* C4 as amended: after M115 the driver reads one line before it writes again,
   and after an instruction it reads a ready line before it writes again; an
   M105 poll is never awaited: what follows it on the channel is another
   write. *)
C4_RequestResponseButPolls ==
    \A i \in 1..(Len(trace) - 1) :
        IsWrite(trace[i]) =>
            CASE trace[i].kind = "handshake" ->
                     trace[i + 1].op = "r" /\ trace[i + 1].kind = "handshake"
              [] trace[i].kind = "instr" ->
                     trace[i + 1].op = "r" /\ trace[i + 1].kind = "wait"
                         /\ trace[i + 1].ready
              [] trace[i].kind = "poll" -> IsWrite(trace[i + 1])

\* A poll and the instruction written right after it, both unanswered until
\* the ready line read next
C4_Witness ==
    \E i \in 1..(Len(trace) - 2) :
        /\ IsPoll(trace[i])
        /\ IsInstr(trace[i + 1])
        /\ trace[i + 2].op = "r"

(* C5: no step taken inside an acknowledgment wait writes to the channel, so
   nothing, and no M105, is written between an instruction and the ready line
   that ends its wait, however far the clock advances meanwhile. *)
C5_NoWriteInWait == [][InWait => written' = written]_vars

\* In a wait, after a not-ready line, with the poll interval long passed
C5_Witness ==
    /\ pc = "sleep"
    /\ now - intervalClock > TempInterval
    /\ ~HasPoll

(* C6: every M105 written is directly followed on the channel by an
   instruction: no M105 follows another M105, and none is the last line of a
   finished run. *)
C6_PollThenInstruction ==
    \A i \in 1..Len(written) :
        IsPoll(written[i]) =>
            IF i < Len(written) THEN IsInstr(written[i + 1]) ELSE pc # "done"

(* C7: the step from the poll check goes on to the poll exactly when the time
   since the last reset of the poll clock is strictly more than TempInterval,
   and itself changes neither the clock nor the channel; the poll sets the
   poll clock to the current time and then writes M105; M105 is written and
   the poll clock is changed (after its initialisation) by no other step. *)
C7_PollExactlyWhenDue ==
    [][ /\ (pc = "poll_check" /\ pc' # pc) =>
               /\ pc' = IF now - intervalClock > TempInterval
                        THEN "poll_reset" ELSE "filter"
               /\ intervalClock' = intervalClock
               /\ written' = written
        /\ (pc = "poll_reset" /\ pc' # pc) =>
               /\ intervalClock' = now
               /\ written' = written
               /\ pc' = "poll_write"
        /\ (pc = "poll_write" /\ pc' # pc) =>
               /\ written' = Append(written, WriteEvent("poll", WithNewline(M105)))
               /\ intervalClock' = intervalClock
        /\ (Len(written') > Len(written) /\ IsPoll(Last(written'))) => pc = "poll_write"
        /\ intervalClock' # intervalClock => pc \in {"clk_interval", "poll_reset"}
      ]_vars

\* A poll has just been made and the poll clock reset to the current time
C7_Witness ==
    /\ pc = "filter"
    /\ written # <<>>
    /\ IsPoll(Last(written))
    /\ intervalClock = now
    /\ now > totalTime + TempInterval

----------------------------------------------------------------------------
(* The driver never stops by itself before the end of its script, and the
   device goes on sending: whenever the driver blocks in readline() again and
   again, a line ParseResponse takes as ready eventually arrives. *)
LiveSpec == Spec /\ WF_vars(Driver) /\ SF_vars(DeviceReady)

(* C8: with such a device the driver reaches Finished, and when it has, every
   instruction of the file has been written and each, the last one too, has
   been followed by a ready line. *)
C8_Terminates ==
    /\ <>(pc = "done")
    /\ [](pc = "done" =>
              /\ InstrWritten = FilteredProgram(gcode)
              /\ Len(gcode) >= 1
              /\ idx = Len(gcode)
              /\ Len(AckEvents) = 2 * Len(InstrWritten)
              /\ (AckEvents # <<>> => Last(AckEvents).op = "r"))

\* Finished after two instructions, a temperature report read on the way
C8_Witness ==
    /\ pc = "done"
    /\ Len(InstrWritten) = 2
    /\ extruderTemp = <<"1", ".", "5">>

\* The end-to-end scenario: the file whose program is G28, G1 X10
Scenario == fileData = Join(<<LineHome, LineMove>>, "\n")

(* C9 as claimed: in the scenario, if the time since the last reset of the
   poll clock is more than the poll interval when the driver finishes (so it
   was at some point of the session), an M105 has been written. *)
C9_Original ==
    (Scenario /\ pc = "done" /\ now - intervalClock > TempInterval) => HasPoll

(* C9 as amended: whenever the poll interval is exceeded at a poll check, the
   check that opens the turn of a raw line, the driver goes on to write M105
   before it handles that line. *)
C9_PollWhenDueAtCheck ==
    (pc = "poll_check" /\ now - intervalClock > TempInterval)
        ~> (pc = "filter" /\ written # <<>> /\ IsPoll(Last(written)))

\* In the scenario, the poll made at the check before the second instruction
C9_Witness ==
    /\ Scenario
    /\ pc = "filter"
    /\ idx = 2
    /\ Len(InstrWritten) = 1
    /\ IsPoll(Last(written))

\* A line that starts with ok and not with ok T:
IsAck(line) ==
    LET s == Strip(line)
    IN  StartsWith(s, <<"o", "k">>) /\ ~StartsWith(s, <<"o", "k", " ", "T", ":">>)

(* C10: the wait has no way out but an acknowledgment: a step taken in the
   wait that does not read a line starting with ok (and not ok T:) leaves the
   driver in the wait and writes nothing, so without such a line the driver
   never writes again and never finishes. *)
C10_NoTimeout ==
    [][ (InWait /\ ~(pc = "read" /\ rx # <<>> /\ IsAck(Head(rx).line) /\ rx' = Tail(rx)))
            => (InWait' /\ written' = written /\ idx' = idx) ]_vars

\* Still waiting long after the poll fell due, a temperature report read and a
\* busy line about to be
C10_Witness ==
    /\ pc = "read"
    /\ bedTempMax = <<"4", ".", "0">>
    /\ rx # <<>>
    /\ Head(rx).line = BusyLine
    /\ now - intervalClock > TempInterval

----------------------------------------------------------------------------
(* ParseResponse over a wide set of lines. The driver is taken in its wait   *)
(* for the acknowledgment of its first instruction, blocked in readline()    *)
(* with one line on its way: a prefix, some characters over ".", a digit and *)
(* a blank, and the end of line. The file has one more instruction, and      *)
(* what follows that line is as in Spec.                                     *)

MaxBody == 5       \* characters after the prefix of a received line

LinePrefixes ==
    { <<>>, TempPrefix, OkTempPrefix, OkPrefix, BusyEcho,
      <<" ">> \o TempPrefix, <<"\t">> \o OkTempPrefix,
      <<"o", "k", "T", ":">>, <<"x">> \o TempPrefix, <<"o">> }

LineBodies == SeqsUpTo({"1", ".", " "}, MaxBody)

ParseLines == {WithNewline(p \o b) : p \in LinePrefixes, b \in LineBodies}

\* The events of the session up to the first instruction's write
FirstWait ==
    << WriteEvent("handshake", WithNewline(M115)),
       ReadEvent("handshake", FALSE, 0),
       WriteEvent("instr", WithNewline(LineHome)) >>

InitParse ==
    /\ pc = "read"
    /\ fileData = Join(<<LineHome, LineMove>>, "\n")
    /\ gcode = <<LineHome, LineMove>>
    /\ idx = 1
    /\ instruction = LineHome
    /\ currentInstruction = LineHome
    /\ resp = IdentLine
    /\ now = 0
    /\ intervalClock = 0
    /\ screenClock = 0
    /\ totalTime = 0
    /\ extruderTemp = <<"0">>
    /\ extruderTempMax = <<"0">>
    /\ bedTemp = <<"0">>
    /\ bedTempMax = <<"0">>
    /\ printerStatus = "default"
    /\ rx \in {<<Msg(line, 0)>> : line \in ParseLines}
    /\ devPos = 0
    /\ devPhase = 0
    /\ trace = FirstWait
    /\ drawn = NoFrame

NextLoop ==
    \/ ForNext \/ PollCheck \/ PollReset \/ PollWrite \/ Filter \/ Send \/ Redraw
    \/ WaitCheck \/ WaitReset \/ WaitDraw \/ Read \/ Sleep \/ Finish
    \/ Tick \/ DeviceReady \/ DeviceNoise

SpecParse == InitParse /\ [][NextLoop]_vars

\* The trimmed text of the line readline() returns next
NextLine == Strip(Head(rx).line)

IsTempReport(s) == StartsWith(s, TempPrefix) \/ StartsWith(s, OkTempPrefix)

\* C11: a line whose trimmed text starts with "ok T:" or with "T:" is found
\* not ready, with four numbers or fewer: the read of such a line leaves the
\* driver in its wait (it goes on to sleep and to the next read) and is no
\* acknowledgment.
C11_TempReportNotReady ==
    [][ pc = "read" /\ rx # <<>> /\ IsTempReport(NextLine)
        => /\ ~ParseResponse(Head(rx).line, telemetry).ready
           /\ pc' = "sleep"
           /\ trace' = trace ]_vars

\* A temperature report has been read in the wait for the first instruction's
\* acknowledgment, and the driver waits on
C11_Witness ==
    /\ pc = "sleep"
    /\ extruderTemp # <<"0">>
    /\ trace = FirstWait

HasAck == \E i \in 1..Len(trace) : trace[i].op = "r" /\ trace[i].kind = "wait"

\* C12: the read of a line that starts with "ok" and not with "ok T:" is
\* found ready and leaves the session's printerStatus, the one WriteScreen
\* prints, at "Printing"; the read of the busy echo is found not ready and
\* leaves it at "Heating"; so a frame drawn after an acknowledgment never
\* shows the initial status.
C12_StatusFollowsLine ==
    /\ [][ pc = "read" /\ rx # <<>>
           => /\ StartsWith(NextLine, OkPrefix) /\ ~StartsWith(NextLine, OkTempPrefix)
                 => pc' = "for" /\ printerStatus' = "Printing"
              /\ NextLine = BusyEcho
                 => pc' = "sleep" /\ printerStatus' = "Heating" ]_vars
    /\ [](HasAck /\ drawn.kind = "status" => drawn.status # "default")

\* The numeric tokens of a text, told from its points: every "." is in one
\* token, a token has one ".", the digits that follow it and the digits that
\* come before it and are in no earlier token.
NumericTokens(s) ==
    LET IsDot(i) == s[i] = "."
        dots == SelectSeq([i \in 1..Len(s) |-> i], IsDot)
        IsDigitAt(i) == i >= 1 /\ i <= Len(s) /\ s[i] \in Digits
        after(i) == CHOOSE n \in 0..Len(s) :
                        /\ \A k \in 1..n : IsDigitAt(i + k)
                        /\ ~IsDigitAt(i + n + 1)
        before(i) == CHOOSE n \in 0..Len(s) :
                        /\ \A k \in 1..n : IsDigitAt(i - k)
                        /\ ~IsDigitAt(i - n - 1)
        hi(j) == dots[j] + after(dots[j])
        lo(j) == IF j > 1 /\ hi(j - 1) + 1 > dots[j] - before(dots[j])
                 THEN hi(j - 1) + 1
                 ELSE dots[j] - before(dots[j])
    IN  [j \in 1..Len(dots) |-> SubSeq(s, lo(j), hi(j))]

\* C13: a step replaces the four telemetry values, by the first four numeric
\* tokens of the line in their order, exactly when it is the read of a line
\* whose trimmed text starts with "T:" or "ok T:" and has four numeric tokens
\* or more; every other step (any other read, a send, a poll, a redraw)
\* leaves the four values as they are.
C13_TelemetryOnlyOnParse ==
    [][ IF /\ pc = "read" /\ rx # <<>>
           /\ IsTempReport(NextLine)
           /\ Len(NumericTokens(NextLine)) >= 4
        THEN telemetry' = SubSeq(NumericTokens(NextLine), 1, 4)
        ELSE telemetry' = telemetry ]_vars

\* Values reported in the first wait are still there when the print is over:
\* they have lasted through the acknowledgments, a send and the redraws
C13_Witness ==
    /\ pc = "done"
    /\ extruderTemp # <<"0">>
    /\ Len(InstrWritten) = 2

\* A trimmed line that is none of what ParseResponse knows
Unrecognized(s) ==
    /\ ~StartsWith(s, TempPrefix)
    /\ ~StartsWith(s, OkTempPrefix)
    /\ ~StartsWith(s, OkPrefix)
    /\ s # BusyEcho

\* C14: the read of a line whose trimmed text starts with none of "T:",
\* "ok T:", "ok" and is not the busy echo is found not ready and changes
\* neither the telemetry nor printerStatus nor a clock nor the current
\* instruction; the driver goes to its sleep, and from there its steps lead
\* within the wait to the next read and to nothing else.
C14_AnomalyIgnored ==
    /\ [][ pc = "read" /\ rx # <<>> /\ Unrecognized(NextLine)
           => /\ ~ParseResponse(Head(rx).line, telemetry).ready
              /\ pc' = "sleep"
              /\ trace' = trace
              /\ UNCHANGED <<telemetry, printerStatus, clocks, currentInstruction>> ]_vars
    /\ [][ (pc \in {"sleep", "wait_check", "wait_reset", "wait_draw"})
           => pc' \in {pc, "wait_check", "wait_reset", "wait_draw", "read"} ]_vars

\* After a first line that did not end the wait, the driver is at its read
\* again and the line it gets is an unrecognized one
C14_Witness ==
    /\ pc = "read"
    /\ rx # <<>>
    /\ Head(rx).line = IdentLine
    /\ Unrecognized(NextLine)
    /\ trace = FirstWait
    /\ now > 0

----------------------------------------------------------------------------
(* The line filter and StripGCode over a wide set of raw lines. The driver   *)
(* is taken at the head of its loop, the handshake and the clocks done, with *)
(* a file of one raw line: a prefix and some characters over a blank, ";"    *)
(* and a letter.                                                             *)

MaxRaw == 4        \* characters after the prefix of a raw line

RawPrefixes == { <<>>, M105, <<" ">> \o M105, <<"M", "1", "0">> }

RawBodies == SeqsUpTo({" ", ";", "G"}, MaxRaw)

RawInputs == {p \o b : p \in RawPrefixes, b \in RawBodies}

InitFilter ==
    /\ pc = "for"
    /\ fileData \in RawInputs
    /\ gcode = <<fileData>>
    /\ idx = 0
    /\ instruction = <<>>
    /\ currentInstruction = <<>>
    /\ resp = IdentLine
    /\ now = 0
    /\ intervalClock = 0
    /\ screenClock = 0
    /\ totalTime = 0
    /\ extruderTemp = <<"0">>
    /\ extruderTempMax = <<"0">>
    /\ bedTemp = <<"0">>
    /\ bedTempMax = <<"0">>
    /\ printerStatus = "default"
    /\ rx = <<>>
    /\ devPos = 0
    /\ devPhase = 0
    /\ trace = SubSeq(FirstWait, 1, 2)
    /\ drawn = NoFrame

SpecFilter == InitFilter /\ [][NextLoop]_vars

\* The raw lines of the file
RawLinesOfFile == {gcode[i] : i \in 1..Len(gcode)}

HasSemicolon(text) == \E k \in 1..Len(text) : text[k] = ";"

\* C15: every instruction written is a non-empty text without ";", followed
\* by the end of line; and of every raw line that none of the three drop
\* rules takes, the text truncated at its first ";" is non-empty, trimmed
\* first (as the driver does) or not.
C15_InstructionsNonEmpty ==
    /\ \A i \in 1..Len(InstrWritten) :
           LET t == InstrWritten[i]
           IN  /\ Len(t) >= 2
               /\ Last(t) = "\n"
               /\ ~HasSemicolon(t)
    /\ \A line \in RawLinesOfFile :
           ~Skipped(Strip(line))
           => /\ TruncatedAtSemicolon(Strip(line)) # <<>>
              /\ TruncatedAtSemicolon(line) # <<>>

\* An instruction of one character has been written, from a raw line that
\* had a comment after it
C15_Witness ==
    /\ InstrWritten = << <<"G", "\n">> >>
    /\ HasSemicolon(gcode[1])

\* The texts StripGCode is looked at on: the raw lines and the loop variable,
\* raw, trimmed and stripped
StripInputs == RawLinesOfFile \cup {fileData, instruction}

\* C16: of every text L, StripGCode(L) has no ";", is the part of L before
\* its first ";" (all of L if it has none), and is left as it is by a second
\* StripGCode.
C16_StripGCodeLaws ==
    \A L \in StripInputs :
        /\ ~HasSemicolon(StripGCode(L))
        /\ StripGCode(L) = TruncatedAtSemicolon(L)
        /\ StripGCode(StripGCode(L)) = StripGCode(L)

\* The send has applied StripGCode to a trimmed line with two comment markers
C16_Witness ==
    /\ pc = "redraw"
    /\ gcode[1] = <<" ", "G", ";", ";">>
    /\ instruction = <<"G">>

----------------------------------------------------------------------------
\* C17: the first event on the channel is the write of "M115\n", the
\* handshake is written that once, one read follows it and the next event is
\* a write (a poll or an instruction); and the read goes on to the rest of the
\* script with whatever line it got.
C17_HandshakeFirst ==
    /\ [](/\ trace # <<>> => trace[1] = WriteEvent("handshake", WithNewline(M115))
          /\ \A i \in 2..Len(trace) :
                 trace[i].kind = "handshake" => i = 2 /\ trace[i].op = "r"
          /\ Len(trace) >= 2 => trace[2].op = "r" /\ trace[2].kind = "handshake"
          /\ Len(trace) >= 3 => IsWrite(trace[3])
          /\ Len(written) >= 2 => pc \notin {"handshake_write", "handshake_read"})
    /\ [][ pc = "handshake_read" /\ rx # <<>>
           => pc' = "split" /\ resp' = Head(rx).line ]_vars

\* The handshake got the busy echo for an answer, and the script has gone on
\* to write an instruction
C17_Witness ==
    /\ resp = BusyLine
    /\ Len(InstrWritten) >= 1

----------------------------------------------------------------------------
(* FormatSeconds over a range of durations. The driver is taken at the end   *)
(* of the print of a file with nothing to send, about to print the time the  *)
(* print took; that time is any whole number of seconds up to MaxSeconds.    *)

MaxSeconds == 7325 \* longest print, in seconds

InitFormat ==
    /\ pc = "finish"
    /\ fileData = LineBlank
    /\ gcode = <<LineBlank>>
    /\ idx = 1
    /\ instruction = <<>>
    /\ currentInstruction = <<>>
    /\ resp = IdentLine
    /\ now \in 0..MaxSeconds
    /\ intervalClock = 0
    /\ screenClock = 0
    /\ totalTime = 0
    /\ extruderTemp = <<"0">>
    /\ extruderTempMax = <<"0">>
    /\ bedTemp = <<"0">>
    /\ bedTempMax = <<"0">>
    /\ printerStatus = "default"
    /\ rx = <<>>
    /\ devPos = 0
    /\ devPhase = 0
    /\ trace = SubSeq(FirstWait, 1, 2)
    /\ drawn = NoFrame

NextFormat == Finish

SpecFormat == InitFormat /\ [][NextFormat]_vars

\* A value with the label of its unit: singular for 1, plural for the rest
WithUnit(n, label) == Str(n) \o label \o (IF n = 1 THEN <<>> ELSE <<"s">>)

\* The text of s seconds: the units that are there, ", " between them
DurationText(s) ==
    LET h == s \div 3600
        mi == (s % 3600) \div 60
        sec == s % 60
        units == (IF h = 0 THEN <<>> ELSE <<WithUnit(h, HourLabel)>>)
                 \o (IF mi = 0 THEN <<>> ELSE <<WithUnit(mi, MinuteLabel)>>)
                 \o <<WithUnit(sec, SecondLabel)>>
        joined[k \in 1..Len(units)] ==
            IF k = 1 THEN units[1] ELSE joined[k - 1] \o <<",", " ">> \o units[k]
    IN  joined[Len(units)]

\* The duration the script prints at the end
Elapsed == now - totalTime

\* C18: the text printed for s whole seconds has the hours s div 3600, the
\* minutes (s mod 3600) div 60 and the seconds s mod 60, hours and minutes
\* only when they are not zero, seconds always, each label singular exactly
\* for the value 1; as in the four examples.
C18_FormatSeconds ==
    drawn.kind = "finished"
    => /\ drawn.elapsed = DurationText(Elapsed)
       /\ Elapsed = 0 => drawn.elapsed = <<"0", " ", "S", "e", "c", "o", "n", "d", "s">>
       /\ Elapsed = 61 => drawn.elapsed =
              <<"1", " ", "M", "i", "n", "u", "t", "e", ",", " ", "1",
              " ", "S", "e", "c", "o", "n", "d">>
       /\ Elapsed = 3600 => drawn.elapsed =
              <<"1", " ", "H", "o", "u", "r", ",", " ", "0", " ", "S",
              "e", "c", "o", "n", "d", "s">>
       /\ Elapsed = 7325 => drawn.elapsed =
              <<"2", " ", "H", "o", "u", "r", "s", ",", " ", "2", " ",
              "M", "i", "n", "u", "t", "e", "s", ",", " ", "5", " ", "S",
              "e", "c", "o", "n", "d", "s">>

\* The longest of the examples has been printed
C18_Witness ==
    /\ drawn.kind = "finished"
    /\ Elapsed = 7325
    /\ Len(drawn.elapsed) = 29

----------------------------------------------------------------------------
\* C19: after their setting at the start of the session, the poll clock is
\* changed by the poll only (the reset that the write of M105 follows), the
\* refresh clock by the timed redraw of the wait only, which is entered from
\* the refresh check with RefreshInterval or more elapsed, and the print-start
\* clock by nothing; the redraw after a send, a read with its ParseResponse
\* and the filtering of a line change none of the three.
C19_ClocksOnlyOnTriggers ==
    [][ /\ intervalClock' # intervalClock
           => \/ pc = "clk_interval"
              \/ pc = "poll_reset" /\ pc' = "poll_write"
        /\ screenClock' # screenClock
           => \/ pc = "clk_screen"
              \/ pc = "wait_reset" /\ pc' = "wait_draw"
        /\ pc' = "wait_reset" /\ pc # "wait_reset"
           => pc = "wait_check" /\ now - screenClock >= RefreshInterval
        /\ totalTime' # totalTime => pc = "clk_total"
        /\ pc \in {"redraw", "read", "sleep", "for", "filter", "send"}
           => UNCHANGED <<intervalClock, screenClock, totalTime>> ]_vars

\* Both triggers have fired: a poll has been written and a timed redraw made,
\* each clock moved off the start of the print
C19_Witness ==
    /\ pc = "read"
    /\ HasPoll
    /\ intervalClock > totalTime
    /\ screenClock > totalTime
    /\ screenClock = now

----------------------------------------------------------------------------
\* A step that takes a line from the device
ReadsLine == rx # <<>> /\ rx' = Tail(rx)

\* C20: the write of an instruction is followed, before any line is read, by
\* a frame whose instruction line is the instruction just written; frames are
\* drawn there and by the timed redraw only; every read of the wait comes
\* right after the refresh check, or after the one redraw that check asked
\* for, and the check asks for it only with RefreshInterval or more elapsed
\* on the refresh clock.
C20_RedrawOrder ==
    [][ /\ written' # written /\ IsInstr(Last(written'))
           => pc' = "redraw"
        /\ pc = "redraw"
           => /\ ~ReadsLine
              /\ pc' # pc
                 => /\ drawn'.kind = "status"
                    /\ IsInstr(Last(written))
                    /\ WithNewline(drawn'.inst) = Last(written).text
        /\ drawn'.kind = "status" => pc \in {"redraw", "wait_draw"}
        /\ pc' = "read" /\ pc # "read"
           => \/ /\ pc = "wait_check"
                 /\ now - screenClock < RefreshInterval
                 /\ drawn' = NoFrame
              \/ /\ pc = "wait_draw"
                 /\ drawn'.kind = "status"
        /\ pc' = "wait_draw" /\ pc # "wait_draw" => pc = "wait_reset"
        /\ pc' = "wait_reset" /\ pc # "wait_reset"
           => pc = "wait_check" /\ now - screenClock >= RefreshInterval
        /\ pc = "wait_check" /\ pc' # pc
           => pc' = IF now - screenClock >= RefreshInterval
                    THEN "wait_reset" ELSE "read" ]_vars

\* In the wait for the second instruction the timed redraw has just drawn a
\* frame, after the one that followed the send; it shows that instruction,
\* comment and blanks gone
C20_Witness ==
    /\ pc = "read"
    /\ drawn.kind = "status"
    /\ drawn.inst = <<"G", "1", " ", "X", "1", "0">>
    /\ Len(InstrWritten) = 2

====
